---- MODULE Spec2Model ----
(***************************************************************************)
(* A model of the stable-plugin crate (src/src/lib.rs).                    *)
(*                                                                         *)
(* The crate has two entry points, each run in a process of its own:       *)
(*   - the CLI, where the framework calls StablePlugin::modify_cargo to    *)
(*     probe the host triple and extend the cargo command;                 *)
(*   - the driver, where the framework calls StablePlugin::run, which      *)
(*     starts the rustc driver with StablePluginCallbacks registered; the  *)
(*     driver calls after_analysis, which runs print_all_items inside a    *)
(*     StableMIR session.                                                  *)
(*                                                                         *)
(* Text that the code inspects character by character (the output of      *)
(* `rustc -vV`, the cargo arguments) is a sequence of one-character        *)
(* strings.  Text that the code only builds (the printed lines, the        *)
(* compiler arguments) is a TLA+ string.                                   *)
(***************************************************************************)
EXTENDS Integers, Sequences, FiniteSets, TLC

VARIABLES
    proc,           \* which entry point this process runs: "cli" or "driver"
    pc,             \* position of the process in its code
    probe,          \* what running `rustc -vV` does: "no_rustc", "bad_utf8", "text"
    stdout,         \* the text `rustc -vV` wrote, when probe = "text"
    target,         \* modify_cargo's local `target`
    cargo0,         \* the arguments of the cargo command handed to modify_cargo
    cargo,          \* the arguments of the cargo command now
    cargo_args,     \* StablePluginArgs.cargo_args
    panic_msg,      \* message of the panic that aborted the process, or "none"
    compiler_args0, \* the compiler arguments handed to run
    compiler_args,  \* run's local `compiler_args`: what the driver is given
    callbacks,      \* the StablePluginCallbacks value: [args, result]
    items,          \* the crate's local items, in the session's order
    session,        \* the StableMIR session: "closed" or "open"
    handles,        \* the items still to be visited by print_all_items' loop
    output,         \* the lines printed so far
    ret,            \* what after_analysis returned, or "none"
    exit,           \* what the driver's run returned: "none", "Ok", "Err"
    calls           \* how many times the driver has called after_analysis

vars == << proc, pc, probe, stdout, target, cargo0, cargo, cargo_args,
           panic_msg, compiler_args0, compiler_args, callbacks, items,
           session, handles, output, ret, exit, calls >>

inputVars == << proc, probe, stdout, cargo0, cargo_args, compiler_args0, items >>

cliVars == << target, cargo >>

driverVars == << compiler_args, callbacks, session, handles, output, ret,
                 exit, calls >>

----------------------------------------------------------------------------
(* Bounds of the model.                                                    *)

MaxLines == 2       \* lines in the text of `rustc -vV`
MaxArgs  == 2       \* forwarded cargo arguments, and compiler arguments
MaxItems == 2       \* local items of the crate

----------------------------------------------------------------------------
(* Sequences.                                                              *)

SeqsUpTo(S, n) == UNION { [1..k -> S] : k \in 0..n }

----------------------------------------------------------------------------
(* The literals of modify_cargo.                                           *)

HostPrefix == << "h", "o", "s", "t", ":", " " >>

BuildStdFlag == << "-", "Z", "b", "u", "i", "l", "d", "-", "s", "t", "d" >>

TargetFlagPrefix == << "-", "-", "t", "a", "r", "g", "e", "t", "=" >>

NL == "\n"

(* str.split("\n"): the maximal newline-free pieces, in order; a text with *)
(* k newlines has k + 1 pieces, the empty text has the one piece "".       *)
RECURSIVE SplitFrom(_, _, _)
SplitFrom(s, i, cur) ==
    IF i > Len(s) THEN << cur >>
    ELSE IF s[i] = NL THEN << cur >> \o SplitFrom(s, i + 1, << >>)
    ELSE SplitFrom(s, i + 1, Append(cur, s[i]))

Split(s) == SplitFrom(s, 1, << >>)

(* str.starts_with(prefix) *)
StartsWith(s, p) == Len(s) >= Len(p) /\ SubSeq(s, 1, Len(p)) = p

(* SkipChars skipping one character too few. *)
SkipCharsOneShort(s, n) == SubSeq(s, n, Len(s))

(* part.chars().skip(n).collect() *)
SkipChars(s, n) == SubSeq(s, n + 1, Len(s))

(* The loop of modify_cargo over the pieces: every piece that starts with  *)
(* "host: " overwrites `target`.                                           *)
RECURSIVE ParseLoop(_, _)
ParseLoop(parts, tgt) ==
    IF parts = << >> THEN tgt
    ELSE ParseLoop(Tail(parts),
                   IF StartsWith(Head(parts), HostPrefix)
                   THEN SkipChars(Head(parts), Len(HostPrefix))
                   ELSE tgt)

ParseTriple(text) == ParseLoop(Split(text), << >>)

(* format!("--target={}", target) *)
TargetFlag(t) == TargetFlagPrefix \o t

----------------------------------------------------------------------------
(* Inputs.                                                                 *)

ProbeLines ==
    { HostPrefix \o << "x" >>,          \* host: x
      HostPrefix \o << "y", "z" >>,     \* host: yz
      HostPrefix,                       \* host: with nothing after it
      << " " >> \o HostPrefix \o << "x" >>,  \* the key not at the line start
      << "h", "o", "s", "t", ":", "x" >>,    \* the key without its space
      << "r" >>,                        \* some other line
      << >> }                           \* an empty line

(* The text: up to MaxLines lines, each ended by a newline, the last one   *)
(* with or without it.                                                     *)
RECURSIVE JoinLines(_)
JoinLines(ls) ==
    IF ls = << >> THEN << >>
    ELSE IF Len(ls) = 1 THEN Head(ls)
    ELSE Head(ls) \o << NL >> \o JoinLines(Tail(ls))

ProbeTexts ==
    { JoinLines(ls) : ls \in SeqsUpTo(ProbeLines, MaxLines) }
    \cup { JoinLines(ls) \o << NL >> : ls \in SeqsUpTo(ProbeLines, MaxLines) }

CargoTokens == { << "-", "F" >>, BuildStdFlag }

CargoArgLists == SeqsUpTo(CargoTokens, MaxArgs)

CargoCommands == { << >>, << << "c", "h", "e", "c", "k" >> >> }

MirFlag == "-Zalways-encode-mir"

CompilerTokens == { "main.rs", MirFlag }

CompilerArgLists == SeqsUpTo(CompilerTokens, MaxArgs)

(* An item of the crate: its DefId, whether its type resolves, and the     *)
(* Display form of its type.                                               *)
TyForms == { "fn() -> i32", "i32" }

ItemKinds ==
    [ resolves : { TRUE }, ty : TyForms ]
    \cup [ resolves : { FALSE }, ty : { "" } ]

Crates ==
    { [ i \in 1..Len(ks) |->
          [ id |-> i, resolves |-> ks[i].resolves, ty |-> ks[i].ty ] ]
        : ks \in SeqsUpTo(ItemKinds, MaxItems) }
(* {:?} of a CrateItem *)
DebugForm(item) == "CrateItem(DefId(" \o ToString(item.id) \o "))"

(* format!("There is an item \"{:?}\" of type \"{}\"", item, item.ty()) *)
Message(item) ==
    "There is an item \"" \o DebugForm(item) \o "\" of type \"" \o item.ty \o "\""

----------------------------------------------------------------------------
(* The state in which each entry point is called.                          *)

NoCallbacks == [ args |-> << >>, result |-> "None" ]

CliIdle == /\ target = << >>
           /\ cargo = cargo0

DriverIdle == /\ compiler_args = compiler_args0
              /\ callbacks = NoCallbacks
              /\ session = "closed"
              /\ handles = << >>
              /\ output = << >>
              /\ ret = "none"
              /\ exit = "none"
              /\ calls = 0

InitCli ==
    /\ proc = "cli"
    /\ pc = "modify_cargo"
    /\ probe \in { "no_rustc", "bad_utf8", "text" }
    /\ stdout \in IF probe = "text" THEN ProbeTexts ELSE { << >> }
    /\ cargo0 \in CargoCommands
    /\ cargo_args \in CargoArgLists
    /\ compiler_args0 = << >>
    /\ items = << >>

InitDriver ==
    /\ proc = "driver"
    /\ pc = "run"
    /\ probe = "text"
    /\ stdout = << >>
    /\ cargo0 = << >>
    /\ cargo_args \in CargoArgLists
    /\ compiler_args0 \in CompilerArgLists
    /\ items \in Crates

Init ==
    /\ InitCli \/ InitDriver
    /\ panic_msg = "none"
    /\ CliIdle
    /\ DriverIdle

----------------------------------------------------------------------------
(* modify_cargo                                                            *)

Panic(msg) ==
    /\ pc' = "panicked"
    /\ panic_msg' = msg

(* Command::new("rustc").arg("-vV").output().expect(..), then              *)
(* String::from_utf8(output.stdout).expect(..)                             *)
ModifyCargoProbe ==
    /\ pc = "modify_cargo"
    /\ IF probe = "no_rustc" THEN Panic("Cannot get default rustc target")
       ELSE IF probe = "bad_utf8" THEN Panic("Cannot parse stdout")
       ELSE pc' = "parse" /\ UNCHANGED panic_msg
    /\ UNCHANGED << inputVars, cliVars, driverVars >>

(* ModifyCargoParse without the check of the length. *)
ModifyCargoParseUnchecked ==
    /\ pc = "parse"
    /\ target' = ParseTriple(stdout)
    /\ pc' = "build_std"
    /\ UNCHANGED << inputVars, cargo, panic_msg, driverVars >>

(* The parse of the triple and the check of its length. *)
ModifyCargoParse ==
    /\ pc = "parse"
    /\ target' = ParseTriple(stdout)
    /\ IF Len(target') = 0 THEN Panic("Bad output")
       ELSE pc' = "build_std" /\ UNCHANGED panic_msg
    /\ UNCHANGED << inputVars, cargo, driverVars >>

(* cargo.arg("-Zbuild-std") *)
ModifyCargoBuildStd ==
    /\ pc = "build_std"
    /\ cargo' = Append(cargo, BuildStdFlag)
    /\ pc' = "target"
    /\ UNCHANGED << inputVars, target, panic_msg, driverVars >>

(* cargo.arg(format!("--target={}", target)) *)
ModifyCargoTarget ==
    /\ pc = "target"
    /\ cargo' = Append(cargo, TargetFlag(target))
    /\ pc' = "forward"
    /\ UNCHANGED << inputVars, target, panic_msg, driverVars >>

(* ModifyCargoForward putting the forwarded arguments before the flags. *)
ModifyCargoForwardFirst ==
    /\ pc = "forward"
    /\ cargo' = cargo0 \o cargo_args \o SubSeq(cargo, Len(cargo0) + 1, Len(cargo))
    /\ pc' = "cargo_ready"
    /\ UNCHANGED << inputVars, target, panic_msg, driverVars >>

(* cargo.args(&args.cargo_args) *)
ModifyCargoForward ==
    /\ pc = "forward"
    /\ cargo' = cargo \o cargo_args
    /\ pc' = "cargo_ready"
    /\ UNCHANGED << inputVars, target, panic_msg, driverVars >>

----------------------------------------------------------------------------
(* run, and the driver it starts                                           *)

(* Run pushing the flag only when the arguments do not hold it yet. *)
RunPushIfAbsent ==
    /\ pc = "run"
    /\ callbacks' = [ args |-> cargo_args, result |-> "None" ]
    /\ compiler_args' =
          IF \E k \in 1..Len(compiler_args) : compiler_args[k] = MirFlag
          THEN compiler_args
          ELSE Append(compiler_args, MirFlag)
    /\ pc' = "compiling"
    /\ UNCHANGED << inputVars, cliVars, panic_msg, session, handles, output,
                    ret, exit, calls >>

(* run up to RunCompiler::new: the callbacks are built with no result, the *)
(* flag is pushed, the driver is constructed.                              *)
Run ==
    /\ pc = "run"
    /\ callbacks' = [ args |-> cargo_args, result |-> "None" ]
    /\ compiler_args' = Append(compiler_args, MirFlag)
    /\ pc' = "compiling"
    /\ UNCHANGED << inputVars, cliVars, panic_msg, session, handles, output,
                    ret, exit, calls >>

(* compiler.run(): the crate does not compile; the driver reports the      *)
(* errors and returns before the checkpoint after analysis.                *)
DriverCompileError ==
    /\ pc = "compiling"
    /\ exit' = "Err"
    /\ pc' = "finished"
    /\ UNCHANGED << inputVars, cliVars, panic_msg, compiler_args, callbacks,
                    session, handles, output, ret, calls >>

(* compiler.run(): analysis completed and the driver calls after_analysis, *)
(* which enters the global context and calls rustc_internal::run; that     *)
(* either opens the session and calls the closure, or returns an Err that  *)
(* the unwrap() turns into a panic.                                        *)
AfterAnalysisEnter ==
    /\ pc = "compiling"
    /\ calls' = calls + 1
    /\ \E opened \in BOOLEAN :
          IF opened
          THEN /\ session' = "open"
               /\ pc' = "all_local_items"
               /\ UNCHANGED panic_msg
          ELSE /\ Panic("rustc_internal::run(..).unwrap()")
               /\ UNCHANGED session
    /\ UNCHANGED << inputVars, cliVars, compiler_args, callbacks, handles,
                    output, ret, exit >>

(* AllLocalItems losing the first item. *)
AllLocalItemsSkipFirst ==
    /\ pc = "all_local_items"
    /\ handles' = IF items = << >> THEN << >> ELSE Tail(items)
    /\ pc' = "loop"
    /\ UNCHANGED << inputVars, cliVars, panic_msg, compiler_args, callbacks,
                    session, output, ret, exit, calls >>

(* print_all_items: stable_mir::all_local_items() *)
AllLocalItems ==
    /\ pc = "all_local_items"
    /\ handles' = items
    /\ pc' = "loop"
    /\ UNCHANGED << inputVars, cliVars, panic_msg, compiler_args, callbacks,
                    session, output, ret, exit, calls >>

(* print_all_items: one turn of the loop.  item.ty() returns the type or   *)
(* panics; the panic unwinds through rustc_internal::run, which drops the  *)
(* session.                                                                *)
PrintItem ==
    /\ pc = "loop"
    /\ handles # << >>
    /\ LET item == Head(handles) IN
          IF item.resolves
          THEN /\ output' = Append(output, Message(item))
               /\ handles' = Tail(handles)
               /\ UNCHANGED << pc, panic_msg, session >>
          ELSE /\ Panic("item.ty()")
               /\ handles' = << >>
               /\ session' = "closed"
               /\ UNCHANGED output
    /\ UNCHANGED << inputVars, cliVars, compiler_args, callbacks, ret, exit,
                    calls >>

(* print_all_items asking for early termination. *)
PrintAllItemsResultStop == "Stop"

(* What print_all_items returns after its loop. *)
PrintAllItemsResult == "Continue"

(* The loop is over: print_all_items returns and the closure stores        *)
(* Some(its value) in self.result.                                         *)
PrintAllItemsReturn ==
    /\ pc = "loop"
    /\ handles = << >>
    /\ callbacks' = [ callbacks EXCEPT !.result = "Some" \o PrintAllItemsResult ]
    /\ pc' = "session_exit"
    /\ UNCHANGED << inputVars, cliVars, panic_msg, compiler_args, session,
                    handles, output, ret, exit, calls >>

(* SessionExit leaving the session open. *)
SessionExitLeak ==
    /\ pc = "session_exit"
    /\ pc' = "check"
    /\ UNCHANGED << inputVars, cliVars, panic_msg, compiler_args, callbacks,
                    session, handles, output, ret, exit, calls >>

(* The closure returns, rustc_internal::run closes the session and returns *)
(* Ok, which unwrap() accepts.                                             *)
SessionExit ==
    /\ pc = "session_exit"
    /\ session' = "closed"
    /\ pc' = "check"
    /\ UNCHANGED << inputVars, cliVars, panic_msg, compiler_args, callbacks,
                    handles, output, ret, exit, calls >>

(* DecisionCheck taking a missing result for success (is_none_or). *)
DecisionCheckNoneIsContinue(result) ==
    IF result = "None" \/ result = "SomeContinue" THEN "Continue" ELSE "Stop"

(* self.result.as_ref().is_some_and(|val| matches!(val, Continue)) selects *)
(* the value after_analysis returns.                                       *)
DecisionCheck(result) ==
    IF result # "None" /\ result = "SomeContinue" THEN "Continue" ELSE "Stop"

AfterAnalysisCheck ==
    /\ pc = "check"
    /\ ret' = DecisionCheck(callbacks.result)
    /\ pc' = "returned"
    /\ UNCHANGED << inputVars, cliVars, panic_msg, compiler_args, callbacks,
                    session, handles, output, exit, calls >>

(* DriverAfterCallback going back to analysis on Continue. *)
DriverAfterCallbackAgain ==
    /\ pc = "returned"
    /\ IF ret = "Continue"
       THEN pc' = "compiling" /\ UNCHANGED exit
       ELSE pc' = "finished" /\ exit' = "Ok"
    /\ UNCHANGED << inputVars, cliVars, panic_msg, compiler_args, callbacks,
                    session, handles, output, ret, calls >>

(* compiler.run(): the driver reads what after_analysis returned; on       *)
(* Continue it goes on to code generation, on Stop it returns.             *)
DriverAfterCallback ==
    /\ pc = "returned"
    /\ IF ret = "Continue"
       THEN pc' = "codegen" /\ UNCHANGED exit
       ELSE pc' = "finished" /\ exit' = "Ok"
    /\ UNCHANGED << inputVars, cliVars, panic_msg, compiler_args, callbacks,
                    session, handles, output, ret, calls >>

(* compiler.run(): code generation ends, with or without errors, and run   *)
(* returns the driver's result.                                            *)
DriverCodegen ==
    /\ pc = "codegen"
    /\ exit' \in { "Ok", "Err" }
    /\ pc' = "finished"
    /\ UNCHANGED << inputVars, cliVars, panic_msg, compiler_args, callbacks,
                    session, handles, output, ret, calls >>

----------------------------------------------------------------------------

Next ==
    \/ ModifyCargoProbe
    \/ ModifyCargoParse
    \/ ModifyCargoBuildStd
    \/ ModifyCargoTarget
    \/ ModifyCargoForward
    \/ Run
    \/ DriverCompileError
    \/ AfterAnalysisEnter
    \/ AllLocalItems
    \/ PrintItem
    \/ PrintAllItemsReturn
    \/ SessionExit
    \/ AfterAnalysisCheck
    \/ DriverAfterCallback
    \/ DriverCodegen

Spec == Init /\ [][Next]_vars

(* The decision of after_analysis as a function of self.result: the        *)
(* callbacks hold any Option<Compilation> when the check is reached.       *)
OptionCompilation == { "None", "SomeContinue", "SomeStop" }

InitDecision ==
    /\ proc = "driver"
    /\ pc = "check"
    /\ probe = "text"
    /\ stdout = << >>
    /\ cargo0 = << >>
    /\ cargo_args \in CargoArgLists
    /\ compiler_args0 \in CompilerArgLists
    /\ items \in { c \in Crates : \A i \in 1..Len(c) : c[i].resolves }
    /\ panic_msg = "none"
    /\ CliIdle
    /\ compiler_args = Append(compiler_args0, MirFlag)
    /\ callbacks \in [ args : { cargo_args }, result : OptionCompilation ]
    /\ session = "closed"
    /\ handles = << >>
    /\ output = [ i \in 1..Len(items) |-> Message(items[i]) ]
    /\ ret = "none"
    /\ exit = "none"
    /\ calls = 1

NextDecision ==
    \/ AfterAnalysisCheck
    \/ DriverAfterCallback
    \/ DriverCodegen

SpecDecision == InitDecision /\ [][NextDecision]_vars

----------------------------------------------------------------------------
(* The lines of a text, told by their positions: characters i..j of s are  *)
(* a line when no newline is among them, a newline or the start of the     *)
(* text is before them and a newline or the end of the text after them.    *)

LineAt(s, i, j) ==
    /\ i \in 1..(Len(s) + 1)
    /\ j \in (i - 1)..Len(s)
    /\ i = 1 \/ s[i - 1] = NL
    /\ j = Len(s) \/ s[j + 1] = NL
    /\ \A k \in i..j : s[k] # NL

HostLineAt(s, i, j) ==
    /\ LineAt(s, i, j)
    /\ j - i + 1 >= 6
    /\ s[i] = "h" /\ s[i + 1] = "o" /\ s[i + 2] = "s" /\ s[i + 3] = "t"
    /\ s[i + 4] = ":" /\ s[i + 5] = " "

LastHostLineAt(s, i, j) ==
    /\ HostLineAt(s, i, j)
    /\ \A i2 \in (i + 1)..(Len(s) + 1), j2 \in 0..Len(s) : ~HostLineAt(s, i2, j2)

Positions(s) == (1..(Len(s) + 1)) \X (0..Len(s))

(* The text gives a triple: its last "host: " line has something after the *)
(* key.                                                                    *)
GivesTriple(s) ==
    \E p \in Positions(s) : LastHostLineAt(s, p[1], p[2]) /\ p[2] - p[1] + 1 > 6

AfterParse == proc = "cli" /\ pc \in { "build_std", "target", "forward", "cargo_ready" }

AnalysisRan == proc = "driver" /\ pc \in { "all_local_items", "loop", "session_exit", "check", "returned" }

EnumerationDone ==
    /\ proc = "driver"
    /\ \/ pc \in { "session_exit", "check", "returned", "codegen" }
       \/ pc = "finished" /\ calls > 0

----------------------------------------------------------------------------
(* C1: the value after_analysis returns is Continue exactly when the       *)
(* result field holds Some(Continue); with no result recorded, or with a   *)
(* recorded Stop, it is Stop.                                              *)
C1_ContinueOnlyOnRecordedContinue ==
    ret # "none" =>
        /\ ret = "Continue" <=> callbacks.result = "SomeContinue"
        /\ callbacks.result \in { "None", "SomeStop" } => ret = "Stop"

C1_Witness == pc = "returned" /\ callbacks.result = "None" /\ ret = "Stop"

(* C2: modify_cargo appends -Zbuild-std, then --target=T, then the         *)
(* forwarded arguments in their order, and nothing else: after each step   *)
(* the command is the one it was handed followed by that much of the       *)
(* sequence.                                                               *)
C2_FlagsThenForwardedArgs ==
    proc = "cli" =>
        /\ pc = "target" => cargo = cargo0 \o << BuildStdFlag >>
        /\ pc = "forward" =>
              cargo = cargo0 \o << BuildStdFlag, TargetFlagPrefix \o target >>
        /\ pc = "cargo_ready" =>
              /\ Len(cargo) = Len(cargo0) + 2 + Len(cargo_args)
              /\ SubSeq(cargo, 1, Len(cargo0)) = cargo0
              /\ cargo[Len(cargo0) + 1] = BuildStdFlag
              /\ cargo[Len(cargo0) + 2] = TargetFlagPrefix \o target
              /\ \A k \in 1..Len(cargo_args) :
                    cargo[Len(cargo0) + 2 + k] = cargo_args[k]

C2_Witness ==
    /\ pc = "cargo_ready"
    /\ Len(cargo0) = 1
    /\ Len(cargo_args) = 2
    /\ cargo_args[1] = BuildStdFlag
    /\ cargo_args[2] # BuildStdFlag

(* C3: when the probe yields a triple, the triple is what follows "host: " *)
(* on the last line of the text that starts with it, up to the end of that *)
(* line; and a text whose last such line has something after the key       *)
(* always yields one.                                                      *)
C3_TripleIsRestOfHostLine ==
    /\ AfterParse =>
          \E p \in Positions(stdout) :
              /\ LastHostLineAt(stdout, p[1], p[2])
              /\ Len(target) = p[2] - p[1] - 5
              /\ \A k \in 1..Len(target) : target[k] = stdout[p[1] + 5 + k]
    /\ proc = "cli" /\ probe = "text" /\ GivesTriple(stdout) => pc # "panicked"

C3_Witness ==
    /\ pc = "build_std"
    /\ target = << "y", "z" >>
    /\ stdout[1] = "r"
    /\ stdout[Len(stdout)] = NL

(* C4: when rustc cannot be run, its output is not UTF-8, or the text      *)
(* gives no triple, modify_cargo panics, and does so with the cargo        *)
(* command as it was handed over; no --target= flag with an empty triple   *)
(* is ever among the arguments.                                            *)
C4_NoTripleAborts ==
    proc = "cli" =>
        /\ (probe # "text" \/ ~GivesTriple(stdout)) /\ pc \notin { "modify_cargo", "parse" }
              => pc = "panicked"
        /\ pc = "panicked" => cargo = cargo0
        /\ \A k \in 1..Len(cargo) : cargo[k] # TargetFlagPrefix

C4_Witness ==
    /\ pc = "panicked"
    /\ panic_msg = "Bad output"
    /\ \E p \in Positions(stdout) : HostLineAt(stdout, p[1], p[2])
    /\ cargo = cargo0

(* C5: the lines printed are at every moment the lines of the first items  *)
(* of the crate, in order, each in the fixed format; when print_all_items  *)
(* has returned there is one line for each of the N items; and the loop    *)
(* stops early only on an item whose type does not resolve.                *)
ExpectedLine(item) ==
    "There is an item \"CrateItem(DefId(" \o ToString(item.id)
        \o "))\" of type \"" \o item.ty \o "\""

C5_OneLinePerItem ==
    /\ Len(output) <= Len(items)
    /\ \A i \in 1..Len(output) : output[i] = ExpectedLine(items[i])
    /\ EnumerationDone => Len(output) = Len(items)
    /\ pc = "loop" => Len(output) + Len(handles) = Len(items)
    /\ panic_msg = "item.ty()" => ~items[Len(output) + 1].resolves

C5_Witness ==
    /\ pc = "session_exit"
    /\ Len(items) = 2
    /\ Len(output) = 2
    /\ output[1] # output[2]

(* C6, as claimed: when the driver has finished, after_analysis has run    *)
(* exactly once.                                                           *)
C6_ExactlyOncePerRun == proc = "driver" /\ pc = "finished" => calls = 1

(* C6, amended: after_analysis runs at most once in a call of run; it has  *)
(* run once whenever the driver is past the checkpoint after analysis, and *)
(* not at all when the driver finished on errors before the checkpoint.    *)
C6_AtMostOnceAndOnceAtCheckpoint ==
    /\ calls <= 1
    /\ AnalysisRan \/ (proc = "driver" /\ pc = "codegen") => calls = 1
    /\ proc = "driver" /\ pc = "finished" =>
          \/ calls = 1 /\ ret # "none"
          \/ calls = 0 /\ ret = "none" /\ exit = "Err"

C6_Witness == pc = "finished" /\ calls = 1 /\ exit = "Ok" /\ Len(output) > 0

(* C7: the driver is given the arguments handed to run, unchanged and in   *)
(* order, with -Zalways-encode-mir after them, whatever they hold.         *)
C7_MirFlagAppendedLast ==
    proc = "driver" /\ pc # "run" =>
        /\ Len(compiler_args) = Len(compiler_args0) + 1
        /\ SubSeq(compiler_args, 1, Len(compiler_args0)) = compiler_args0
        /\ compiler_args[Len(compiler_args)] = "-Zalways-encode-mir"

C7_Witness ==
    /\ pc = "compiling"
    /\ Len(compiler_args0) = 2
    /\ compiler_args0[1] = "-Zalways-encode-mir"
    /\ cargo_args # << >>

(* C8: once print_all_items has returned, the recorded decision is         *)
(* Some(Continue), after_analysis returns Continue, and the driver goes on *)
(* to code generation.                                                     *)
C8_CompletedEnumerationContinues ==
    /\ [](EnumerationDone =>
            /\ callbacks.result = "SomeContinue"
            /\ pc \in { "returned", "codegen", "finished" } => ret = "Continue")
    /\ [][pc = "returned" => pc' = "codegen"]_vars

C8_Witness == pc = "codegen" /\ items = << >> /\ ret = "Continue"

(* C9: the session is open exactly from the call of the closure to the     *)
(* return of rustc_internal::run; item handles exist and lines are printed *)
(* only while it is open; the decision is checked with the session closed  *)
(* and no handle left.                                                     *)
C9_HandlesOnlyInOpenSession ==
    /\ [](/\ session = "open" <=>
                proc = "driver" /\ pc \in { "all_local_items", "loop", "session_exit" }
          /\ handles # << >> => session = "open"
          /\ pc \in { "check", "returned", "codegen", "finished", "panicked" } =>
                session = "closed" /\ handles = << >>)
    /\ [][output' # output \/ handles' # handles =>
            session = "open" /\ (session' = "open" \/ pc' = "panicked")]_vars

C9_Witness ==
    /\ pc = "check"
    /\ session = "closed"
    /\ Len(output) = 2
    /\ callbacks.result = "SomeContinue"

(* C10, as claimed: an item whose type does not resolve does not abort the *)
(* enumeration: the process never ends in the panic of item.ty().          *)
C10_UnresolvedItemDoesNotAbort ==
    ~(pc = "panicked" /\ panic_msg = "item.ty()")
====
